---- MODULE Spec2Model ----
(***************************************************************************)
(* Model of the context lifecycle and scoping subsystem of chakracore-rs   *)
(* (src/src/context.rs): Context, ContextData (the Auxiliary Record),      *)
(* ContextGuard and the two engine callbacks promise_handler and collect.  *)
(*                                                                         *)
(* The JSRT engine is the environment.  Its state that the code reads or   *)
(* writes through the Js* calls is modelled by the variables ctxState,     *)
(* collectCb, ctxData, promiseCb and cur; whether it accepts or rejects a  *)
(* call is an input of the action that makes the call.                     *)
(***************************************************************************)
EXTENDS Naturals, Integers, Sequences, FiniteSets, TLC

\* ---------------------------------------------------------------- bounds
MaxCtx    == 2   \* context handles the engine hands out
MaxGuards == 2   \* ContextGuard values alive at the same time
MaxTasks  == 2   \* deferred tasks the engine submits in one run

Ctx    == 1 .. MaxCtx            \* JsContextRef handles; 0 is the null handle
Tasks  == 1 .. MaxTasks          \* task ids, issued in submission order
Types  == {"A", "B"}             \* TypeId keys of the user-data AnyMap
Values == {1, 2}                 \* values stored under a type; 0 is None

NoContext == 0                   \* JsContextRef::new(): the null reference
None      == 0                   \* Option::None of a stored value
NullData  == 0                   \* ptr::null_mut()

VARIABLES
    nextCtx,    \* next handle JsCreateContext hands out
    ctxState,   \* engine: handle -> "unused" | "alive" | "destroyed"
    collectCb,  \* engine: handle -> before-collect callback registered
    ctxData,    \* engine: handle -> context data pointer (record id or NullData)
    promiseCb,  \* engine: handle -> data pointer of its promise callback
    cur,        \* engine: the thread's current context (NoContext if none)
    allocated,  \* heap: record id -> Box<ContextData> has been allocated
    freed,      \* heap: record id -> number of times the box was freed
    rec,        \* heap: record id -> ContextData
    created,    \* handles that Context::new returned in Ok
    guards,     \* the live ContextGuard values, in creation order
    lifo,       \* history: every owning guard so far was released newest first
    exec,       \* the execute_tasks call in progress, or NoExec
    nextTask,   \* next task id the engine submits
    invLog,     \* history: the tasks invoked by the latest execute_tasks call
    callSet,    \* history: the tasks that were in that call's queue
    shadow,     \* history: handle -> type -> last value inserted since removal
    ret,        \* result of the latest operation
    status      \* "running" | "panicked" | "uaf"

vars == << nextCtx, ctxState, collectCb, ctxData, promiseCb, cur, allocated,
           freed, rec, created, guards, lifo, exec, nextTask, invLog, callSet,
           shadow, ret, status >>

engineVars == << nextCtx, ctxState, collectCb, ctxData, promiseCb >>
heapVars   == << allocated, freed, rec >>
taskHist   == << invLog, callSet >>

\* --------------------------------------------------------------- helpers
Result(tag, val) == [tag |-> tag, val |-> val]

NoExec == [guard |-> 0, data |-> NullData, task |-> 0]

\* ContextData { promise_queue: Vec::new(), user_data: AnyMap::new() }
EmptyContextData == [promise_queue |-> << >>, user_data |-> [t \in Types |-> None]]

\* ContextGuard { previous, current, phantom, drop }; before is history: the
\* engine's current context when the guard was made.
Guard(previous, current, drop, before) ==
    [previous |-> previous, current |-> current, drop |-> drop, before |-> before]

RemoveAt(s, i) == [j \in 1 .. (Len(s) - 1) |-> IF j < i THEN s[j] ELSE s[j + 1]]

Owning(gs) == SelectSeq(gs, LAMBDA g : g.drop)

\* The history of an execute_tasks call is kept until the next operation.
ForgetCall == invLog' = << >> /\ callSet' = {}

Running == status = "running"
Idle    == Running /\ exec = NoExec

\* ------------------------------------------------------------------ Init
Init ==
    /\ nextCtx = 1
    /\ ctxState = [c \in Ctx |-> "unused"]
    /\ collectCb = [c \in Ctx |-> FALSE]
    /\ ctxData = [c \in Ctx |-> NullData]
    /\ promiseCb = [c \in Ctx |-> NullData]
    /\ cur = NoContext
    /\ allocated = [r \in Ctx |-> FALSE]
    /\ freed = [r \in Ctx |-> 0]
    /\ rec = [r \in Ctx |-> EmptyContextData]
    /\ created = {}
    /\ guards = << >>
    /\ lifo = TRUE
    /\ exec = NoExec
    /\ nextTask = 1
    /\ invLog = << >>
    /\ callSet = {}
    /\ shadow = [c \in Ctx |-> [t \in Types |-> None]]
    /\ ret = Result("init", 0)
    /\ status = "running"

\* ------------------------------------------------------- engine (JSRT) side
\* JsSetCurrentContext(next): the engine rejects a destroyed handle, and may
\* reject any request (accept = FALSE); the null handle clears the slot.
EngineAccepts(next, accept) ==
    accept /\ (next = NoContext \/ ctxState[next] = "alive")

\* JsGetCurrentContext: "The JSRT API returns null instead of an error code".
JsGetCurrentContext == cur

\* ------------------------------------------------------ Context: raw data
\* Variant: the data of the current context instead of the handle's own.
get_data_of_current(c) == ctxData[IF cur = NoContext THEN c ELSE cur]

\* Context::get_data: JsGetContextData(self.as_raw()), keyed by the handle.
get_data(c) == ctxData[c]

\* What dereferencing get_data(c) does.  A destroyed handle is a dangling
\* engine reference: the engine either reports an error (jsassert! panics)
\* or hands back the stale pointer to the freed record.
DataOutcomes(c) ==
    IF ctxState[c] = "destroyed" THEN {"panicked", "uaf"}
    ELSE IF get_data(c) = NullData THEN {"panicked"}
    ELSE IF freed[get_data(c)] > 0 THEN {"uaf"}
    ELSE {"ok"}

\* A panic (jsassert!, assert!, unwrap) or an access to freed memory ends the
\* run: only status and ret change.
Fault(o, who) ==
    /\ status' = o
    /\ ret' = Result(o, who)
    /\ UNCHANGED << engineVars, heapVars, cur, created, guards, lifo, exec,
                    nextTask, taskHist, shadow >>

\* ----------------------------------------------------- user data (AnyMap)
\* Variant: insert keeps a value that is already stored.
AnyMapInsertKeep(m, T, v) == IF m[T] = None THEN [m EXCEPT ![T] = v] ELSE m

AnyMapInsert(m, T, v) == [m EXCEPT ![T] = v]
AnyMapRemove(m, T)    == [m EXCEPT ![T] = None]
AnyMapGet(m, T)       == m[T]

\* Context::insert_user_data::<T>(value)
InsertUserData(c, T, v) ==
    /\ Idle /\ c \in created
    /\ \E o \in DataOutcomes(c) :
         IF o = "ok"
         THEN LET d == get_data(c) IN
              /\ rec' = [rec EXCEPT ![d].user_data = AnyMapInsert(@, T, v)]
              /\ ret' = Result("insert", AnyMapGet(rec[d].user_data, T))
              /\ shadow' = [shadow EXCEPT ![c][T] = v]
              /\ ForgetCall
              /\ UNCHANGED << engineVars, allocated, freed, cur, created, guards,
                              lifo, exec, nextTask, status >>
         ELSE Fault(o, c)

\* Context::remove_user_data::<T>()
RemoveUserData(c, T) ==
    /\ Idle /\ c \in created
    /\ \E o \in DataOutcomes(c) :
         IF o = "ok"
         THEN LET d == get_data(c) IN
              /\ rec' = [rec EXCEPT ![d].user_data = AnyMapRemove(@, T)]
              /\ ret' = Result("remove", AnyMapGet(rec[d].user_data, T))
              /\ shadow' = [shadow EXCEPT ![c][T] = None]
              /\ ForgetCall
              /\ UNCHANGED << engineVars, allocated, freed, cur, created, guards,
                              lifo, exec, nextTask, status >>
         ELSE Fault(o, c)

\* Context::get_user_data::<T>() and get_user_data_mut::<T>()
GetUserData(c, T) ==
    /\ Idle /\ c \in created
    /\ \E o \in DataOutcomes(c) :
         IF o = "ok"
         THEN /\ ret' = Result("get", AnyMapGet(rec[get_data(c)].user_data, T))
              /\ ForgetCall
              /\ UNCHANGED << engineVars, heapVars, cur, created, guards, lifo,
                              exec, nextTask, shadow, status >>
         ELSE Fault(o, c)

\* ------------------------------------------------- make_current / guards
\* Variant: the previous context is not recorded.
SnapshotNone == NoContext

\* make_current line 63: the previous context, snapshot before entering.
Snapshot == JsGetCurrentContext

\* Variant: the guard is built whether or not enter() succeeded.
GuardsAlways(c, ok) == Append(guards, Guard(Snapshot, c, TRUE, cur))

\* make_current lines 65-72: a guard is built only inside map(), on Ok.
GuardsAfterMakeCurrent(c, ok) ==
    IF ok THEN Append(guards, Guard(Snapshot, c, TRUE, cur)) ELSE guards

\* Context::make_current
MakeCurrent(c, accept) ==
    /\ Idle /\ c \in created /\ Len(guards) < MaxGuards
    /\ LET ok == EngineAccepts(c, accept) IN
       /\ cur' = IF ok THEN c ELSE cur
       /\ guards' = GuardsAfterMakeCurrent(c, ok)
       /\ ret' = Result(IF ok THEN "ok" ELSE "err", c)
    /\ ForgetCall
    /\ UNCHANGED << engineVars, heapVars, created, lifo, exec, nextTask,
                    shadow, status >>

\* Context::get_current: a guard that only refers to the current context.
GetCurrent ==
    /\ Idle /\ Len(guards) < MaxGuards
    /\ IF JsGetCurrentContext = NoContext
       THEN /\ guards' = guards
            /\ ret' = Result("none", NoContext)
       ELSE /\ guards' = Append(guards,
                           Guard(NoContext, JsGetCurrentContext, FALSE, cur))
            /\ ret' = Result("some", JsGetCurrentContext)
    /\ ForgetCall
    /\ UNCHANGED << engineVars, heapVars, cur, created, lifo, exec, nextTask,
                    shadow, status >>

\* ContextGuard::context
GuardContext(i) ==
    /\ Idle /\ i \in 1 .. Len(guards)
    /\ ret' = Result("context", guards[i].current)
    /\ ForgetCall
    /\ UNCHANGED << engineVars, heapVars, cur, created, guards, lifo, exec,
                    nextTask, shadow, status >>

\* Variant: drop ignores the drop flag.
ShouldRestoreAlways(g) == TRUE

\* ContextGuard::drop line 204: only a guard made by make_current restores.
ShouldRestore(g) == g.drop

\* Variant: the guard's own context is entered again.
ExitTargetSelf(g) == g.current

\* Context::exit lines 146-148: the handle to restore, null when absent.
ExitTarget(g) == g.previous

\* Variant: the result of exit() is not asserted.
AssertSkipped(ok) == TRUE

\* ContextGuard::drop line 205: assert!(exit(..).is_ok())
AssertIsOk(ok) == ok

\* ContextGuard::drop: the guard is gone afterwards; a rejected restore fails
\* the assert!.
ReleaseGuard(i, accept) ==
    /\ Idle /\ i \in 1 .. Len(guards)
    /\ LET g == guards[i] IN
       /\ guards' = RemoveAt(guards, i)
       /\ lifo' = (lifo /\ (g.drop => \A j \in (i + 1) .. Len(guards) : ~guards[j].drop))
       /\ IF ~ShouldRestore(g)
          THEN /\ ret' = Result("dropped", g.current)
               /\ UNCHANGED << cur, status >>
          ELSE LET ok == EngineAccepts(ExitTarget(g), accept) IN
               /\ cur' = IF ok THEN ExitTarget(g) ELSE cur
               /\ status' = IF AssertIsOk(ok) THEN status ELSE "panicked"
               /\ ret' = Result(IF AssertIsOk(ok) THEN "restored" ELSE "panicked",
                                g.current)
    /\ ForgetCall
    /\ UNCHANGED << engineVars, heapVars, created, exec, nextTask, shadow >>

\* ---------------------------------------------------------- Context::new
\* The engine calls of Context::new that can fail, in program order, and the
\* restore made by the drop of the transient guard ("exit").
CreateFailures ==
    {"none", "JsCreateContext", "JsSetObjectBeforeCollectCallback",
     "JsSetContextData", "enter", "JsSetPromiseContinuationCallback", "exit"}

\* Context::new(runtime) where the engine fails the call named by fail.
Create(fail) ==
    /\ Idle /\ nextCtx \in Ctx /\ fail \in CreateFailures
    /\ LET h        == nextCtx
           made     == fail # "JsCreateContext"
           cbSet    == made /\ fail # "JsSetObjectBeforeCollectCallback"
           boxed    == cbSet                    \* Box::new + Box::into_raw
           attached == boxed /\ fail # "JsSetContextData"
           previous == Snapshot
           entered  == attached /\ fail # "enter"
           inside   == IF entered THEN h ELSE cur
           \* "Promise continuation callback requires an active context"
           promised == /\ attached /\ inside # NoContext
                       /\ fail # "JsSetPromiseContinuationCallback"
           restored == entered /\ fail # "exit"
           aborted  == entered /\ ~restored
       IN
       /\ nextCtx' = IF made THEN h + 1 ELSE nextCtx
       /\ ctxState' = IF made THEN [ctxState EXCEPT ![h] = "alive"] ELSE ctxState
       /\ collectCb' = IF cbSet THEN [collectCb EXCEPT ![h] = TRUE] ELSE collectCb
       /\ allocated' = IF boxed THEN [allocated EXCEPT ![h] = TRUE] ELSE allocated
       /\ rec' = IF boxed THEN [rec EXCEPT ![h] = EmptyContextData] ELSE rec
       /\ ctxData' = IF attached THEN [ctxData EXCEPT ![h] = h] ELSE ctxData
       /\ promiseCb' = IF promised THEN [promiseCb EXCEPT ![inside] = h]
                       ELSE promiseCb
       /\ cur' = IF entered THEN (IF restored THEN previous ELSE h) ELSE cur
       /\ status' = IF aborted THEN "panicked" ELSE status
       /\ created' = IF promised /\ ~aborted THEN created \cup {h} ELSE created
       /\ ret' = IF aborted THEN Result("panicked", h)
                 ELSE IF promised THEN Result("ok", h)
                 ELSE Result("err", IF made THEN h ELSE NoContext)
    /\ ForgetCall
    /\ UNCHANGED << freed, guards, lifo, exec, nextTask, shadow >>

\* ------------------------------------------------------- Context::collect
\* Variant: the box is not rebuilt, so nothing is freed.
FreedAfterCollectLeak(d) == freed

\* Box::from_raw(context.get_data()) dropped at once: one more free of d.
FreedAfterCollect(d) == [freed EXCEPT ![d] = @ + 1]

\* The engine destroys context c (runtime torn down, or c collected) and runs
\* the before-collect callback first.  It does so once per context, never
\* for the current context and never during another call on the context.
Collect(c) ==
    /\ Idle /\ c \in Ctx /\ ctxState[c] = "alive" /\ c # cur
    /\ IF ~collectCb[c]
       THEN /\ ctxState' = [ctxState EXCEPT ![c] = "destroyed"]
            /\ UNCHANGED << heapVars, status, ret >>
       ELSE IF get_data(c) = NullData
       THEN \* (data as *mut _).as_mut().unwrap() on a null pointer
            /\ status' = "panicked"
            /\ ret' = Result("panicked", c)
            /\ UNCHANGED << ctxState, heapVars >>
       ELSE /\ ctxState' = [ctxState EXCEPT ![c] = "destroyed"]
            /\ freed' = FreedAfterCollect(get_data(c))
            /\ rec' = [rec EXCEPT ![get_data(c)] = EmptyContextData]
            /\ UNCHANGED << allocated, status, ret >>
    /\ UNCHANGED << nextCtx, collectCb, ctxData, promiseCb, cur, created, guards,
                    lifo, exec, nextTask, shadow >>
    /\ ForgetCall

\* ----------------------------------------------- Context::promise_handler
\* data.promise_queue.push(task)
VecPush(q, t) == Append(q, t)

\* The engine submits a deferred task for context x while script runs (under
\* a current context, possibly inside a task that execute_tasks invoked): it
\* calls promise_handler with the data pointer registered for x.
Submit(x) ==
    /\ Running /\ (exec = NoExec \/ exec.task # 0)
    /\ cur # NoContext
    /\ x \in Ctx /\ ctxState[x] = "alive" /\ promiseCb[x] # NullData
    /\ nextTask \in Tasks
    /\ LET d == promiseCb[x] IN
       IF freed[d] > 0
       THEN Fault("uaf", x)
       ELSE /\ rec' = [rec EXCEPT ![d].promise_queue = VecPush(@, nextTask)]
            /\ nextTask' = nextTask + 1
            /\ callSet' = IF exec # NoExec /\ exec.data = d
                          THEN callSet \cup {nextTask} ELSE callSet
            /\ UNCHANGED << engineVars, allocated, freed, cur, created, guards,
                            lifo, exec, invLog, shadow, ret, status >>

\* --------------------------------------------- ContextGuard::execute_tasks
\* Variant: the queue is drained from the front.
VecPopFront(q) == [task |-> q[1], rest |-> SubSeq(q, 2, Len(q))]

\* data.promise_queue.pop(): the last element, and what is left.
VecPop(q) == [task |-> q[Len(q)], rest |-> SubSeq(q, 1, Len(q) - 1)]

\* Variant: the loop stops one task early.
QueueDrainedButOne(q) == Len(q) <= 1

\* `while let Some(task) = ...pop()`: the loop ends when pop finds nothing.
QueueDrained(q) == q = << >>

\* Variant: the result of the call is dropped unread.
DiscardResult(ok) == TRUE

\* task.call(self, &[]).unwrap(): Ok continues the loop, Err panics.
UnwrapOk(ok) == ok

\* line 194: let data = self.current.get_data()
ExecBegin(i) ==
    /\ Idle /\ i \in 1 .. Len(guards)
    /\ LET c == guards[i].current IN
       \E o \in DataOutcomes(c) :
         IF o = "ok"
         THEN /\ exec' = [guard |-> i, data |-> get_data(c), task |-> 0]
              /\ invLog' = << >>
              /\ callSet' = { rec[get_data(c)].promise_queue[k] :
                                k \in 1 .. Len(rec[get_data(c)].promise_queue) }
              /\ ret' = Result("executing", c)
              /\ UNCHANGED << engineVars, heapVars, cur, created, guards, lifo,
                              nextTask, shadow, status >>
         ELSE Fault(o, c)

\* line 195: a task is popped and its call starts.
ExecPop ==
    /\ Running /\ exec # NoExec /\ exec.task = 0
    /\ ~QueueDrained(rec[exec.data].promise_queue)
    /\ LET p == VecPop(rec[exec.data].promise_queue) IN
       /\ rec' = [rec EXCEPT ![exec.data].promise_queue = p.rest]
       /\ exec' = [exec EXCEPT !.task = p.task]
       /\ invLog' = Append(invLog, [task |-> p.task, stamp |-> nextTask])
    /\ UNCHANGED << engineVars, allocated, freed, cur, created, guards, lifo,
                    nextTask, callSet, shadow, ret, status >>

\* line 196: the call returns; the engine fails it when no context is
\* current, and the task itself may throw (ok = FALSE).
TaskReturn(ok) ==
    /\ Running /\ exec # NoExec /\ exec.task # 0
    /\ IF UnwrapOk(ok /\ cur # NoContext)
       THEN /\ exec' = [exec EXCEPT !.task = 0]
            /\ UNCHANGED << ret, status >>
       ELSE /\ status' = "panicked"
            /\ ret' = Result("panicked", exec.task)
            /\ UNCHANGED exec
    /\ UNCHANGED << engineVars, heapVars, cur, created, guards, lifo, nextTask,
                    taskHist, shadow >>

\* line 195: pop returns None and execute_tasks returns.
ExecReturn ==
    /\ Running /\ exec # NoExec /\ exec.task = 0
    /\ QueueDrained(rec[exec.data].promise_queue)
    /\ exec' = NoExec
    /\ ret' = Result("returned", guards[exec.guard].current)
    /\ UNCHANGED << engineVars, heapVars, cur, created, guards, lifo, nextTask,
                    taskHist, shadow, status >>

\* ----------------------------------------------------- specifications
\* The operations by family.
LifecycleOps ==
    \/ \E f \in CreateFailures : Create(f)
    \/ \E c \in Ctx : Collect(c)

ScopeOps ==
    \/ \E c \in Ctx, a \in BOOLEAN : MakeCurrent(c, a)
    \/ GetCurrent
    \/ \E i \in 1 .. MaxGuards : GuardContext(i)
    \/ \E i \in 1 .. MaxGuards, a \in BOOLEAN : ReleaseGuard(i, a)

DataOps ==
    \/ \E c \in Ctx, T \in Types, v \in Values : InsertUserData(c, T, v)
    \/ \E c \in Ctx, T \in Types : RemoveUserData(c, T)
    \/ \E c \in Ctx, T \in Types : GetUserData(c, T)

TaskOps ==
    \/ \E x \in Ctx : Submit(x)
    \/ \E i \in 1 .. MaxGuards : ExecBegin(i)
    \/ ExecPop
    \/ \E ok \in BOOLEAN : TaskReturn(ok)
    \/ ExecReturn

NoTaskYet  == nextTask = 1
NoUserData == \A c \in Ctx, T \in Types : rec[c].user_data[T] = None

\* Every operation.  user_data and promise_queue are disjoint fields of the
\* record, so a run stores user data only while no task has been submitted
\* and runs the task machinery only while no user data is stored.
Next ==
    \/ LifecycleOps
    \/ ScopeOps
    \/ NoTaskYet /\ DataOps
    \/ NoUserData /\ TaskOps

Spec == Init /\ [][Next]_vars

\* Contexts and guards alone, with every failure of Context::new.
NextScope ==
    \/ LifecycleOps
    \/ ScopeOps

SpecScope == Init /\ [][NextScope]_vars

\* User data under make_current cycles and context destruction.
NextData ==
    \/ Create("none")
    \/ \E c \in Ctx : Collect(c)
    \/ \E c \in Ctx, a \in BOOLEAN : MakeCurrent(c, a)
    \/ \E i \in 1 .. MaxGuards, a \in BOOLEAN : ReleaseGuard(i, a)
    \/ DataOps

SpecData == Init /\ [][NextData]_vars

\* The user-data accessors alone, on every context create returned.
NextUserData ==
    \/ Create("none")
    \/ DataOps

SpecUserData == Init /\ [][NextUserData]_vars

\* Deferred tasks under nested guards.
NextTasks ==
    \/ Create("none")
    \/ \E c \in Ctx, a \in BOOLEAN : MakeCurrent(c, a)
    \/ \E i \in 1 .. MaxGuards, a \in BOOLEAN : ReleaseGuard(i, a)
    \/ TaskOps

SpecTasks == Init /\ [][NextTasks]_vars

\* Deferred tasks where execute_tasks runs on: the loop takes its next step,
\* and every invoked task comes back, with Ok or with Err.
SpecTasksFair ==
    /\ SpecTasks
    /\ WF_vars(ExecPop)
    /\ WF_vars(\E ok \in BOOLEAN : TaskReturn(ok))
    /\ WF_vars(ExecReturn)

\* ------------------------------------------------------------- properties
TopOwning(gs, i) == gs[i].drop /\ \A j \in (i + 1) .. Len(gs) : ~gs[j].drop

Released(i) ==
    /\ i \in 1 .. Len(guards)
    /\ guards' = RemoveAt(guards, i)
    /\ exec = NoExec /\ status = "running"

\* What get_user_data::<T>() reads through a Context value wrapping handle c.
Read(c, T) == AnyMapGet(rec[get_data(c)].user_data, T)

Occurrences(log, t) == Cardinality({k \in 1 .. Len(log) : log[k].task = t})

\* C1: stack nesting.  While every owning guard has been released newest
\* first, a release that completes leaves the engine's current context equal
\* to the one that was current just before the matching make_current, and with
\* no owning guard left no context is current.
C1_StackNesting ==
    /\ [][\A i \in 1 .. MaxGuards :
            (Released(i) /\ lifo /\ TopOwning(guards, i) /\ status' = "running")
                => cur' = guards[i].before]_vars
    /\ [](lifo /\ status = "running" /\ Owning(guards) = << >> => cur = NoContext)

\* C1 witness: an inner guard was released in order and the outer guard's
\* context is current again.
C1_Witness ==
    /\ lifo /\ status = "running" /\ ret.tag = "restored"
    /\ Len(Owning(guards)) >= 1
    /\ cur = Owning(guards)[Len(Owning(guards))].current
    /\ ret.val # cur

\* C2: the record of a context that create returned has been freed once when
\* the before-collect callback has run for its handle and not at all before;
\* it is never freed twice.
C2_FreedOnceByCollect ==
    \A c \in created :
        freed[c] = (IF ctxState[c] = "destroyed" THEN 1 ELSE 0)

\* C2 witness: a context that create returned has been destroyed by the
\* engine and its record has been freed once.
C2_Witness ==
    \E c \in created :
        ctxState[c] = "destroyed" /\ freed[c] = 1 /\ status = "running"

\* C3 (as claimed): no operation dereferences the record of a context after
\* the before-collect callback has run for it.
C3_NoAccessAfterCollect == status # "uaf"

\* C4: when the engine rejects the set-current request of make_current, the
\* call returns an error, the set of guards is as before and so is the
\* current context.
C4_RejectedMakeCurrent ==
    [][\A c \in Ctx, a \in BOOLEAN :
         (MakeCurrent(c, a) /\ ~EngineAccepts(c, a))
             => /\ ret' = Result("err", c)
                /\ guards' = guards
                /\ cur' = cur]_vars

\* C4 witness: make_current on one context was rejected while another
\* context was current, which still is.
C4_Witness ==
    /\ ret.tag = "err" /\ ret.val \in created
    /\ cur # NoContext /\ cur # ret.val
    /\ Len(guards) = 1

\* C5: when execute_tasks returns, the queue it drained is empty and every
\* task that was in that queue at the start of the call or was pushed onto it
\* during the call has been invoked exactly once.
C5_DrainedOnReturn ==
    [][(exec # NoExec /\ exec' = NoExec)
         => /\ rec'[exec.data].promise_queue = << >>
            /\ \A t \in callSet : Occurrences(invLog, t) = 1
            /\ \A k \in 1 .. Len(invLog) : invLog[k].task \in callSet]_vars

\* C5 witness: a call returned after invoking a task that was queued at its
\* start and a task submitted while the first one ran.
C5_Witness ==
    /\ exec = NoExec /\ ret.tag = "returned"
    /\ Len(invLog) = 2
    /\ invLog[2].task >= invLog[1].stamp

\* C6 (as claimed): of any two tasks invoked by one execute_tasks call, the
\* one enqueued later is invoked first.
C6_ReverseEnqueueOrder ==
    \A i, j \in 1 .. Len(invLog) :
        i < j => invLog[i].task > invLog[j].task

\* C6 (amended): of two tasks invoked by one execute_tasks call that were
\* both enqueued before the first of them was invoked, the one enqueued later
\* is invoked first.
C6_LastQueuedFirst ==
    \A i, j \in 1 .. Len(invLog) :
        (i < j /\ invLog[j].task < invLog[i].stamp)
            => invLog[i].task > invLog[j].task

\* C6 witness: two tasks queued before the call were invoked, the later one
\* first.
C6_Witness ==
    /\ Len(invLog) = 2
    /\ invLog[2].task < invLog[1].stamp
    /\ invLog[1].task > invLog[2].task

C8_ReplaceSemantics ==
    /\ [](\A c \in created, T \in Types :
            ctxState[c] = "alive" => rec[c].user_data[T] = shadow[c][T])
    /\ [][\A c \in Ctx, T \in Types, v \in Values :
            (InsertUserData(c, T, v) /\ status' = "running")
                => /\ ret' = Result("insert", rec[c].user_data[T])
                   /\ rec' = [rec EXCEPT ![c].user_data[T] = v]]_vars
    /\ [][\A c \in Ctx, T \in Types :
            (RemoveUserData(c, T) /\ status' = "running")
                => /\ ret' = Result("remove", rec[c].user_data[T])
                   /\ rec' = [rec EXCEPT ![c].user_data[T] = None]
                   /\ (rec[c].user_data[T] = None => rec' = rec)]_vars

\* C8 witness: an insert replaced a stored value and returned it while a
\* value of the other type is stored in the same map.
C8_Witness ==
    \E c \in created :
        /\ ret = Result("insert", 1)
        /\ rec[c].user_data["A"] = 2
        /\ rec[c].user_data["B"] = 1
        /\ status = "running"

\* C9: make_current and guard release, of any context, leave what every
\* live context's handle reads back for every type as it was, whether or not
\* that context is current.
C9_DataSurvivesCycles ==
    [][((\E c \in Ctx, a \in BOOLEAN : MakeCurrent(c, a))
          \/ (\E i \in 1 .. MaxGuards, a \in BOOLEAN : ReleaseGuard(i, a)))
         => \A c \in created, T \in Types :
              ctxState[c] = "alive" => Read(c, T)' = Read(c, T)]_vars

\* C9 witness: a value stored in a context is still read back after a guard
\* was released, while that context is not current.
C9_Witness ==
    \E c \in created :
        /\ ret.tag = "restored" /\ status = "running"
        /\ ctxState[c] = "alive" /\ cur # c
        /\ Read(c, "A") = 2 /\ shadow[c]["A"] = 2

\* C10: get_current, reading context() and releasing a guard obtained from
\* get_current change neither the engine's current context nor the owning
\* guards, and never fail.
C10_NonOwningInert ==
    [][(\/ GetCurrent
        \/ \E i \in 1 .. MaxGuards : GuardContext(i)
        \/ \E i \in 1 .. MaxGuards, a \in BOOLEAN :
             i <= Len(guards) /\ ~guards[i].drop /\ ReleaseGuard(i, a))
         => /\ cur' = cur
            /\ Owning(guards') = Owning(guards)
            /\ status' = status]_vars

\* C10 witness: a guard obtained from get_current was released inside a
\* nesting of owning guards and the current context is still the inner one.
C10_Witness ==
    /\ ret.tag = "dropped" /\ status = "running"
    /\ Len(Owning(guards)) >= 1
    /\ cur # NoContext
    /\ cur = Owning(guards)[Len(Owning(guards))].current

\* The five engine calls of Context::new that the caller is told about.
CreateSteps ==
    {"JsCreateContext", "JsSetObjectBeforeCollectCallback", "JsSetContextData",
     "enter", "JsSetPromiseContinuationCallback"}

\* C11: create fails with an EngineError if any of its engine calls fails
\* (creating the context, registering the before-collect callback, attaching
\* the record, making the new context current, registering the promise
\* callback), and then returns no context.
C11_FailsOnAnyEngineFailure ==
    [][\A f \in CreateSteps :
         Create(f) => (ret'.tag = "err" /\ created' = created)]_vars

\* C12: when attaching the record fails after its allocation, the record is
\* freed exactly once, and the before-collect callback registered for that
\* context does not fault when the engine destroys the context.
C12_AttachFailureDiscarded ==
    \A h \in Ctx :
        (allocated[h] /\ collectCb[h] /\ ctxData[h] = NullData)
            => (freed[h] = 1 /\ ret # Result("panicked", h))

\* Create returned (Ok or Err) in this step.
CreateReturns(f) == Create(f) /\ status' = "running"

\* C13: on every return path of create, success or failure, the engine's
\* current context is what it was immediately before the call.
C13_CurrentRestored ==
    [][\A f \in CreateFailures : CreateReturns(f) => cur' = cur]_vars

\* C13 witness: create returned a new context while another context was
\* current, and that other context is current again.
C13_Witness ==
    /\ status = "running" /\ ret.tag = "ok"
    /\ ret.val \in created /\ nextCtx = ret.val + 1
    /\ cur # NoContext /\ cur # ret.val
    /\ promiseCb[ret.val] = ret.val

\* Guard i, an owning guard, is released while the engine is asked with
\* answer a.
ReleaseOwning(i, a) == ReleaseGuard(i, a) /\ guards[i].drop

\* The engine's answer to the restore that releasing guard g makes.
RestoreAccepted(g, a) ==
    a /\ (g.previous = NoContext \/ ctxState[g.previous] = "alive")

C17_OutOfOrderUndetected ==
    [][/\ ( /\ Len(guards) = 2 /\ guards[1].drop /\ guards[2].drop
            /\ guards[1].previous = NoContext /\ guards[1].before = NoContext
            /\ guards[2].previous = guards[1].current
            /\ guards[2].current # guards[1].current
            /\ cur = guards[2].current
            /\ ReleaseGuard(1, TRUE) )
          => ( /\ status' = "running" /\ ret'.tag = "restored"
               /\ cur' = NoContext /\ guards' = << guards[2] >> )
       /\ ( /\ Len(guards) = 1 /\ guards[1].drop /\ ~lifo
            /\ guards[1].previous # NoContext
            /\ guards[1].previous # guards[1].current
            /\ ctxState[guards[1].previous] = "alive"
            /\ cur = NoContext
            /\ ReleaseGuard(1, TRUE) )
          => ( /\ status' = "running" /\ ret'.tag = "restored"
               /\ cur' = guards[1].previous /\ guards' = << >> )]_vars

\* C17 witness: both guards were released, the older one first; no guard is
\* left and the older guard's context is current.
C17_Witness ==
    /\ status = "running" /\ ~lifo /\ guards = << >>
    /\ ret.tag = "restored"
    /\ cur # NoContext /\ cur # ret.val

\* C18: releasing an owning guard sets the current context to the guard's
\* recorded previous context, none when absent; when the engine rejects that
\* call the release panics and the current context stays as it was.
C18_RestoreOrAbort ==
    [][\A i \in 1 .. MaxGuards, a \in BOOLEAN :
         ReleaseOwning(i, a) =>
            IF RestoreAccepted(guards[i], a)
            THEN cur' = guards[i].previous /\ status' = "running"
                 /\ ret'.tag = "restored"
            ELSE status' = "panicked" /\ ret'.tag = "panicked" /\ cur' = cur]_vars

\* C18 witness: the engine rejected the restore of an owning guard and the
\* release panicked with the guard's context still current.
C18_Witness ==
    /\ status = "panicked"
    /\ ret.tag = "panicked" /\ ret.val \in created
    /\ cur = ret.val

\* C15: a task the engine submits on behalf of context x is appended to the
\* end of the queue of x's own record; every other queue, every user-data
\* map and the current context are left as they were.
C15_OwnQueueOnly ==
    [][\A x \in Ctx :
         (Submit(x) /\ status' = "running")
            => /\ rec' = [rec EXCEPT ![get_data(x)].promise_queue =
                                            Append(@, nextTask)]
               /\ cur' = cur]_vars

\* C16: while execute_tasks has a task invoked through a guard, the engine's
\* current context is that guard's context.
C16_RunsInGuardContext ==
    (exec # NoExec /\ exec.task # 0) => cur = guards[exec.guard].current

\* The steps of a call of execute_tasks that is in progress.
ExecStep == ExecPop \/ ExecReturn \/ \E ok \in BOOLEAN : TaskReturn(ok)

====
